---- MODULE Spec2Model ----
(***************************************************************************)
(* chargelog: the weekly recommender (recommend_week.py) and the weekly    *)
(* heatmap (heatmap_week.py) reading the same occupancy CSV.               *)
(*                                                                         *)
(* Times of day are <<hour, minute>> pairs in local (Europe/Paris) time.   *)
(* Probabilities are exact rationals <<numerator, denominator>>; the       *)
(* threshold is kept in percent (0.80 is 80).                              *)
(***************************************************************************)
EXTENDS Integers, Sequences, FiniteSets, TLC

VARIABLES
    cfg,          \* the analysis parameters of both scripts
    pc,           \* position in the run
    rows_total,   \* heatmap: CSV rows seen
    rows_parsed,  \* heatmap: rows with a parsed timestamp
    records,      \* recommender: list of (weekday, hour, minute_bin, a)
    idx,          \* recommender: next record of the aggregation loop
    bins_data,    \* recommender: weekday -> (hour, minute) -> {n, ok}
    success,      \* heatmap: success[wd][slot], the entries that were written
    total,        \* heatmap: total[wd][slot], the entries that were written
    hm_outcome,   \* heatmap: how the script ended
    rec_outcome,  \* recommender: how the script ended
    report,       \* recommender: the line printed for each weekday 0..5
    day_bins,     \* argument of merge_and_score / top_k_runs called directly
    merged,       \* result of merge_and_score(day_bins)
    alt           \* result of top_k_runs(day_bins, TOP_K)

vars == <<cfg, pc, rows_total, rows_parsed, records, idx, bins_data, success,
          total, hm_outcome, rec_outcome, report, day_bins, merged, alt>>

----------------------------------------------------------------------------
(* Bounds *)

\* CSV rows read in one run.
MaxRows == 3
\* Samples per bin when merge_and_score / top_k_runs are called directly.
MaxCount == 2

----------------------------------------------------------------------------
(* Parameters *)

BIN_MINUTES == cfg.BIN_MINUTES
THRESHOLD == cfg.THRESHOLD
MIN_RUN_BINS == cfg.MIN_RUN_BINS
MIN_SAMPLES_PER_BIN == cfg.MIN_SAMPLES_PER_BIN
TOP_K == cfg.TOP_K

\* The values written in the source.
DefaultConfig ==
    [BIN_MINUTES |-> 15, THRESHOLD |-> 80, MIN_RUN_BINS |-> 2,
     MIN_SAMPLES_PER_BIN |-> 1, TOP_K |-> 3]

\* The parameters are adjustable ("tu peux ajuster"): the 10-minute, 90 %
\* setting, and a bin width that does not divide 60.
ScenarioConfig ==
    [BIN_MINUTES |-> 10, THRESHOLD |-> 90, MIN_RUN_BINS |-> 2,
     MIN_SAMPLES_PER_BIN |-> 1, TOP_K |-> 3]

OddWidthConfig ==
    [BIN_MINUTES |-> 25, THRESHOLD |-> 80, MIN_RUN_BINS |-> 2,
     MIN_SAMPLES_PER_BIN |-> 1, TOP_K |-> 3]

Configs == {DefaultConfig, ScenarioConfig, OddWidthConfig}

START_LOCAL == <<9, 0>>
END_LOCAL == <<17, 0>>
SLOTS_PER_DAY == (8 * 60) \div BIN_MINUTES

Weekdays == 0 .. 6
ReportDays == 0 .. 5

----------------------------------------------------------------------------
(* Helpers shared by both scripts *)

\* int(str(v).strip()), and 0 when that raises; CSV fields are strings
to_int_or_zero(v) ==
    CASE v = "0" -> 0
      [] v = "1" -> 1
      [] v = "2" -> 2
      [] v = " 2 " -> 2
      [] OTHER -> 0

to_min(hm) == hm[1] * 60 + hm[2]

\* START_LOCAL <= ts_local.time() < END_LOCAL
InWindow(hm) == to_min(START_LOCAL) <= to_min(hm) /\ to_min(hm) < to_min(END_LOCAL)

\* a dict with no key
EmptyDict == [k \in {} |-> 0]

----------------------------------------------------------------------------
(* Input rows.  ts is what get_ts_from_row and fromisoformat make of the   *)
(* row: "missing" (no timestamp string), "bad" (not ISO-8601) or "ok";     *)
(* wd and hm are then the weekday and time of day of ts_local.             *)

SampleTimes == {<<9, 0>>, <<9, 10>>, <<9, 20>>, <<9, 50>>, <<10, 0>>}

MondayRows ==
    [ts : {"ok"}, wd : {0}, hm : SampleTimes, available : {"0", "1"}, total : {"2"}]
    \cup {[ts |-> "ok", wd |-> 0, hm |-> <<9, 10>>, available |-> "2", total |-> " 2 "]}

EdgeRows ==
    { [ts |-> "ok", wd |-> 6, hm |-> <<9, 0>>, available |-> "1", total |-> "2"],
      [ts |-> "ok", wd |-> 5, hm |-> <<9, 0>>, available |-> "1", total |-> "2"],
      [ts |-> "ok", wd |-> 0, hm |-> <<8, 59>>, available |-> "1", total |-> "2"],
      [ts |-> "ok", wd |-> 0, hm |-> <<17, 0>>, available |-> "1", total |-> "2"],
      [ts |-> "ok", wd |-> 0, hm |-> <<9, 0>>, available |-> "1", total |-> "0"],
      [ts |-> "ok", wd |-> 0, hm |-> <<9, 0>>, available |-> "1", total |-> ""],
      [ts |-> "missing", wd |-> 0, hm |-> <<9, 0>>, available |-> "1", total |-> "2"],
      [ts |-> "bad", wd |-> 0, hm |-> <<9, 0>>, available |-> "1", total |-> "2"] }

Rows == MondayRows \cup EdgeRows

\* the row passes every filter the two scripts share
Usable(row) ==
    /\ row.ts = "ok"
    /\ to_int_or_zero(row.total) > 0
    /\ InWindow(row.hm)

----------------------------------------------------------------------------
(* recommend_week.py: reading and aggregation *)

\* (ts_local.minute // BIN_MINUTES) * BIN_MINUTES
minute_bin(hm) == (hm[2] \div BIN_MINUTES) * BIN_MINUTES

\* the tuple appended to records for a usable row
RecordOf(row) ==
    <<row.wd, row.hm[1], minute_bin(row.hm), to_int_or_zero(row.available)>>

Cell(day, key) == IF key \in DOMAIN day THEN day[key] ELSE [n |-> 0, ok |-> 0]

\* variant: a success needs more than one free connector
AddSampleManyFree(day, key, a) ==
    [k \in DOMAIN day \cup {key} |->
        IF k = key
        THEN [n |-> Cell(day, key).n + 1,
              ok |-> Cell(day, key).ok + (IF a > 1 THEN 1 ELSE 0)]
        ELSE day[k]]

\* variant: "ok" is assigned instead of incremented
AddSampleOverwrite(day, key, a) ==
    [k \in DOMAIN day \cup {key} |->
        IF k = key
        THEN [n |-> Cell(day, key).n + 1, ok |-> (IF a >= 1 THEN 1 ELSE 0)]
        ELSE day[k]]

\* d = bins_data[wd][(h, m)]; d["n"] += 1; d["ok"] += 1 if a >= 1 else 0
AddSample(day, key, a) ==
    [k \in DOMAIN day \cup {key} |->
        IF k = key
        THEN [n |-> Cell(day, key).n + 1,
              ok |-> Cell(day, key).ok + (IF a >= 1 THEN 1 ELSE 0)]
        ELSE day[k]]

\* one iteration of "for wd, h, m, a in records"
AggregateRecord(grid, rec) ==
    [grid EXCEPT ![rec[1]] = AddSample(grid[rec[1]], <<rec[2], rec[3]>>, rec[4])]

----------------------------------------------------------------------------
(* heatmap_week.py: reading and accumulation *)

\* minutes_since_start // BIN_MINUTES
slot(hm) == ((hm[1] - 9) * 60 + hm[2]) \div BIN_MINUTES

SlotInRange(s) == ~(s < 0 \/ s >= SLOTS_PER_DAY)

\* success and total are 7 x SLOTS_PER_DAY arrays of zeros; the variables hold
\* the entries <<wd, slot>> that "+=" has written, every other entry is 0
At(arr, wd, s) == IF <<wd, s>> \in DOMAIN arr THEN arr[<<wd, s>>] ELSE 0

\* arr[wd][s] += d
Bump(arr, wd, s, d) ==
    [c \in DOMAIN arr \cup {<<wd, s>>} |-> IF c = <<wd, s>> THEN At(arr, wd, s) + d ELSE arr[c]]

\* M[wd, s] is a number (not NaN): n > 0
MHasValue(wd, s) == At(total, wd, s) > 0

\* np.all(np.isnan(M))
AllNaN == \A wd \in ReportDays : \A s \in 0 .. SLOTS_PER_DAY - 1 : ~MHasValue(wd, s)

----------------------------------------------------------------------------
(* Exact arithmetic on probabilities: <<num, den>> with den > 0 *)

RatTimes(x, n) == <<x[1] * n, x[2]>>
RatPlus(x, y) == <<x[1] * y[2] + y[1] * x[2], x[2] * y[2]>>
RatOver(x, n) == <<x[1], x[2] * n>>
RatEq(x, y) == x[1] * y[2] = y[1] * x[2]
RatLess(x, y) == x[1] * y[2] < y[1] * x[2]
RatLeq(x, y) == x[1] * y[2] <= y[1] * x[2]

----------------------------------------------------------------------------
(* recommend_week.py: merge_and_score and top_k_runs *)

\* tuple order of (h, m) keys, as list.sort() and sorted() use it
KeyLess(a, b) == a[1] < b[1] \/ (a[1] = b[1] /\ a[2] < b[2])

RECURSIVE SortKeys(_)
SortKeys(S) ==
    IF S = {} THEN <<>>
    ELSE LET first == CHOOSE k \in S : \A j \in S : ~KeyLess(j, k)
         IN  <<first>> \o SortKeys(S \ {first})

\* probs[(h,m)] = (p, n) for every cell with n != 0
Probs(day) ==
    [k \in {j \in DOMAIN day : day[j].n # 0} |-> <<(<<day[k].ok, day[k].n>>), day[k].n>>]

\* p >= THRESHOLD and n >= MIN_SAMPLES_PER_BIN
Qualifies(pn) ==
    /\ pn[1][1] * 100 >= THRESHOLD * pn[1][2]
    /\ pn[2] >= MIN_SAMPLES_PER_BIN

\* variant: a one-bin gap does not break the run
ContiguousOverGap(prev, cur) == to_min(cur) - to_min(prev) <= 2 * BIN_MINUTES

\* to_min(cur) - to_min(run[-1]) == step
Contiguous(prev, cur) == to_min(cur) - to_min(prev) = BIN_MINUTES

\* the loop "for cur in keys[1:]" and the final runs.append(run)
RECURSIVE GroupLoop(_, _, _, _)
GroupLoop(keys, i, runs, run) ==
    IF i > Len(keys) THEN Append(runs, run)
    ELSE IF Contiguous(run[Len(run)], keys[i])
         THEN GroupLoop(keys, i + 1, runs, Append(run, keys[i]))
         ELSE GroupLoop(keys, i + 1, Append(runs, run), <<keys[i]>>)

GroupRuns(keys) == GroupLoop(keys, 2, <<>>, <<keys[1]>>)

\* sum(probs[k][1] for k in r)
RECURSIVE SumN(_, _)
SumN(r, probs) ==
    IF r = <<>> THEN 0 ELSE probs[Head(r)][2] + SumN(Tail(r), probs)

\* sum(probs[k][0]*probs[k][1] for k in r)
RECURSIVE SumPN(_, _)
SumPN(r, probs) ==
    IF r = <<>> THEN <<0, 1>>
    ELSE RatPlus(RatTimes(probs[Head(r)][1], probs[Head(r)][2]), SumPN(Tail(r), probs))

\* variant: the plain mean of the bins' probabilities
RECURSIVE SumP(_, _)
SumP(r, probs) ==
    IF r = <<>> THEN <<0, 1>> ELSE RatPlus(probs[Head(r)][1], SumP(Tail(r), probs))

UnweightedP(r, probs) == RatOver(SumP(r, probs), Len(r))

\* sum(...) / total_n
WeightedP(r, probs) == RatOver(SumPN(r, probs), SumN(r, probs))

\* the loop "for r in runs": (start, end, weighted_p, total_n) of each kept run
ScoreRuns(runs, probs) ==
    LET kept == SelectSeq(runs, LAMBDA r : ~(Len(r) < MIN_RUN_BINS) /\ SumN(r, probs) # 0)
    IN  [i \in 1 .. Len(kept) |->
            <<kept[i][1], kept[i][Len(kept[i])], WeightedP(kept[i], probs), SumN(kept[i], probs)>>]

merge_and_score(day) ==
    LET probs == Probs(day)
        safe_keys == {k \in DOMAIN probs : Qualifies(probs[k])}
    IN  IF safe_keys = {} THEN <<>>
        ELSE ScoreRuns(GroupRuns(SortKeys(safe_keys)), probs)

\* variant: reverse=True left out
RankedBelow(x, y) == RatLess(x[3], y[3]) \/ (RatEq(x[3], y[3]) /\ x[4] < y[4])

\* key=lambda x: (x[2], x[3]), compared as tuples
RankedAbove(x, y) == RatLess(y[3], x[3]) \/ (RatEq(x[3], y[3]) /\ x[4] > y[4])

\* place x behind every element that does not rank below it (the sort is stable)
RECURSIVE InsertRanked(_, _)
InsertRanked(sorted, x) ==
    IF sorted = <<>> THEN <<x>>
    ELSE IF RankedAbove(x, Head(sorted)) THEN <<x>> \o sorted
         ELSE <<Head(sorted)>> \o InsertRanked(Tail(sorted), x)

\* scored.sort(key=..., reverse=True)
RECURSIVE SortRanked(_, _)
SortRanked(scored, i) ==
    IF i = 0 THEN <<>> ELSE InsertRanked(SortRanked(scored, i - 1), scored[i])

\* scored[:k]
Prefix(seq, k) == SubSeq(seq, 1, IF k < Len(seq) THEN k ELSE Len(seq))

top_k_runs(day, k) ==
    LET probs == Probs(day)
    IN  IF DOMAIN probs = {} THEN <<>>
        ELSE LET scored == ScoreRuns(GroupRuns(SortKeys(DOMAIN probs)), probs)
             IN  Prefix(SortRanked(scored, Len(scored)), k)

\* variant: sums d["ok"]
RECURSIVE TotalSuccesses(_, _)
TotalSuccesses(day, keys) ==
    IF keys = {} THEN 0
    ELSE LET k == CHOOSE j \in keys : TRUE
         IN  day[k].ok + TotalSuccesses(day, keys \ {k})

\* sum(d["n"] for d in day_bins.values())
RECURSIVE TotalMeasures(_, _)
TotalMeasures(day, keys) ==
    IF keys = {} THEN 0
    ELSE LET k == CHOOSE j \in keys : TRUE
         IN  day[k].n + TotalMeasures(day, keys \ {k})

\* variant: the fallback's runs are printed without the "(meilleurs observés)" mark
DayLineUnmarked(day) ==
    LET m == merge_and_score(day)
        a == top_k_runs(day, TOP_K)
    IN  IF m # <<>> THEN [kind |-> "safe", parts |-> m, measures |-> 0]
        ELSE IF a # <<>> THEN [kind |-> "safe", parts |-> a, measures |-> 0]
             ELSE [kind |-> "none", parts |-> <<>>,
                   measures |-> TotalMeasures(day, DOMAIN day)]

\* the body of "for wd in range(6)": the line printed for one day
DayLine(day) ==
    LET m == merge_and_score(day)
    IN  IF m # <<>> THEN [kind |-> "safe", parts |-> m, measures |-> 0]
        ELSE LET a == top_k_runs(day, TOP_K)
             IN  IF a # <<>> THEN [kind |-> "best", parts |-> a, measures |-> 0]
                 ELSE [kind |-> "none", parts |-> <<>>,
                       measures |-> TotalMeasures(day, DOMAIN day)]

----------------------------------------------------------------------------
(* The run of both scripts over one CSV file *)

Init ==
    /\ cfg \in Configs
    /\ pc = "read"
    /\ rows_total = 0
    /\ rows_parsed = 0
    /\ records = <<>>
    /\ idx = 1
    /\ bins_data = [wd \in Weekdays |-> EmptyDict]
    /\ success = EmptyDict
    /\ total = EmptyDict
    /\ hm_outcome = "running"
    /\ rec_outcome = "running"
    /\ report = <<>>
    /\ day_bins = EmptyDict
    /\ merged = <<>>
    /\ alt = <<>>

\* heatmap_week.py, one usable row: success[wd][slot] and total[wd][slot]
HeatmapAccumulate(row) ==
    LET a == to_int_or_zero(row.available)
        s == slot(row.hm)
    IN  IF SlotInRange(s)
        THEN /\ success' = Bump(success, row.wd, s, IF a >= 1 THEN 1 ELSE 0)
             /\ total' = Bump(total, row.wd, s, 1)
        ELSE UNCHANGED <<success, total>>

\* one iteration of "for row in reader" in both scripts
ReadRow(row) ==
    /\ pc = "read"
    /\ rows_total < MaxRows
    /\ rows_total' = rows_total + 1
    /\ rows_parsed' = IF row.ts = "ok" THEN rows_parsed + 1 ELSE rows_parsed
    /\ IF Usable(row)
       THEN /\ records' = Append(records, RecordOf(row))
            /\ HeatmapAccumulate(row)
       ELSE UNCHANGED <<records, success, total>>
    /\ UNCHANGED <<cfg, pc, idx, bins_data, hm_outcome, rec_outcome, report,
                   day_bins, merged, alt>>

\* the reader is exhausted
EndOfFile ==
    /\ pc = "read"
    /\ pc' = "matrix"
    /\ UNCHANGED <<cfg, rows_total, rows_parsed, records, idx, bins_data, success,
                   total, hm_outcome, rec_outcome, report, day_bins, merged, alt>>

\* heatmap_week.py steps 2 to 5: the matrix, the empty check, the picture
HeatmapFinish ==
    /\ pc = "matrix"
    /\ hm_outcome' = IF AllNaN THEN "no_usable_data" ELSE "heatmap"
    /\ pc' = "check"
    /\ UNCHANGED <<cfg, rows_total, rows_parsed, records, idx, bins_data, success,
                   total, rec_outcome, report, day_bins, merged, alt>>

\* recommend_week.py "if not records"
CheckRecords ==
    /\ pc = "check"
    /\ IF records = <<>>
       THEN /\ rec_outcome' = "no_data"
            /\ pc' = "done"
       ELSE /\ rec_outcome' = rec_outcome
            /\ pc' = "aggregate"
    /\ UNCHANGED <<cfg, rows_total, rows_parsed, records, idx, bins_data, success,
                   total, hm_outcome, report, day_bins, merged, alt>>

\* recommend_week.py step 2, one record
Aggregate ==
    /\ pc = "aggregate"
    /\ idx <= Len(records)
    /\ bins_data' = AggregateRecord(bins_data, records[idx])
    /\ idx' = idx + 1
    /\ UNCHANGED <<cfg, pc, rows_total, rows_parsed, records, success, total,
                   hm_outcome, rec_outcome, report, day_bins, merged, alt>>

AggregateDone ==
    /\ pc = "aggregate"
    /\ idx > Len(records)
    /\ pc' = "report"
    /\ UNCHANGED <<cfg, rows_total, rows_parsed, records, idx, bins_data, success,
                   total, hm_outcome, rec_outcome, report, day_bins, merged, alt>>

\* recommend_week.py step 3: "for wd in range(6)"
Report ==
    /\ pc = "report"
    /\ report' = [wd \in ReportDays |-> DayLine(bins_data[wd])]
    /\ rec_outcome' = "report"
    /\ pc' = "done"
    /\ UNCHANGED <<cfg, rows_total, rows_parsed, records, idx, bins_data, success,
                   total, hm_outcome, day_bins, merged, alt>>

Next ==
    \/ \E row \in Rows : ReadRow(row)
    \/ EndOfFile
    \/ HeatmapFinish
    \/ CheckRecords
    \/ Aggregate
    \/ AggregateDone
    \/ Report

Spec == Init /\ [][Next]_vars

----------------------------------------------------------------------------
(* merge_and_score and top_k_runs called directly on one day's bins *)

\* min-samples floor of 2 with a single proposal; single-bin runs with two
StrictConfig ==
    [BIN_MINUTES |-> 15, THRESHOLD |-> 80, MIN_RUN_BINS |-> 2,
     MIN_SAMPLES_PER_BIN |-> 2, TOP_K |-> 1]

LooseConfig ==
    [BIN_MINUTES |-> 15, THRESHOLD |-> 50, MIN_RUN_BINS |-> 1,
     MIN_SAMPLES_PER_BIN |-> 1, TOP_K |-> 2]

FnConfigs == {DefaultConfig, ScenarioConfig, StrictConfig, LooseConfig}

\* the first five bins of the window
FnSlots == 0 .. 4

\* the key RecordOf gives a sample taken t minutes after 09:00
KeyOfMinute(t) == <<9 + (t \div 60), minute_bin(<<9 + (t \div 60), t % 60>>)>>

FnKeys == {KeyOfMinute(i * BIN_MINUTES) : i \in FnSlots}

\* a cell the aggregation can hold: 1 <= n, 0 <= ok <= n
FnCells == {c \in [n : 1 .. MaxCount, ok : 0 .. MaxCount] : c.ok <= c.n}

FnGrids == UNION {[K -> FnCells] : K \in SUBSET FnKeys}

InitFn ==
    /\ cfg \in FnConfigs
    /\ pc = "call"
    /\ day_bins \in FnGrids
    /\ rows_total = 0
    /\ rows_parsed = 0
    /\ records = <<>>
    /\ idx = 1
    /\ bins_data = [wd \in Weekdays |-> EmptyDict]
    /\ success = EmptyDict
    /\ total = EmptyDict
    /\ hm_outcome = "running"
    /\ rec_outcome = "running"
    /\ report = <<>>
    /\ merged = <<>>
    /\ alt = <<>>

CallMerge ==
    /\ pc = "call"
    /\ merged' = merge_and_score(day_bins)
    /\ pc' = "merged"
    /\ UNCHANGED <<cfg, rows_total, rows_parsed, records, idx, bins_data, success,
                   total, hm_outcome, rec_outcome, report, day_bins, alt>>

CallTopK ==
    /\ pc = "merged"
    /\ alt' = top_k_runs(day_bins, TOP_K)
    /\ pc' = "ranked"
    /\ UNCHANGED <<cfg, rows_total, rows_parsed, records, idx, bins_data, success,
                   total, hm_outcome, rec_outcome, report, day_bins, merged>>

NextFn == CallMerge \/ CallTopK

SpecFn == InitFn /\ [][NextFn]_vars

----------------------------------------------------------------------------
(* Vocabulary of the properties: bins, runs and scores stated as sets *)

KeyAt(t) == <<t \div 60, t % 60>>

ObservedKeys(day) == {k \in DOMAIN day : day[k].n > 0}

QualifyingKeys(day) ==
    {k \in ObservedKeys(day) :
        day[k].ok * 100 >= THRESHOLD * day[k].n /\ day[k].n >= MIN_SAMPLES_PER_BIN}

\* the bins from s to e, one bin width apart
CellsBetween(s, e) ==
    {KeyAt(to_min(s) + j * BIN_MINUTES) : j \in 0 .. ((to_min(e) - to_min(s)) \div BIN_MINUTES)}

RunLength(s, e) == ((to_min(e) - to_min(s)) \div BIN_MINUTES) + 1

\* s..e is a run of bins of S, one bin width apart, that cannot be extended
IsMaximalRun(S, s, e) ==
    /\ to_min(s) <= to_min(e)
    /\ (to_min(e) - to_min(s)) % BIN_MINUTES = 0
    /\ CellsBetween(s, e) \subseteq S
    /\ KeyAt(to_min(s) - BIN_MINUTES) \notin S
    /\ KeyAt(to_min(e) + BIN_MINUTES) \notin S

\* the maximal runs of S with at least MIN_RUN_BINS bins, as <<start, end>>
LongRuns(S) ==
    {se \in S \X S :
        IsMaximalRun(S, se[1], se[2]) /\ RunLength(se[1], se[2]) >= MIN_RUN_BINS}

RECURSIVE SamplesIn(_, _)
SamplesIn(day, K) ==
    IF K = {} THEN 0
    ELSE LET k == CHOOSE j \in K : TRUE IN day[k].n + SamplesIn(day, K \ {k})

RECURSIVE SuccessesIn(_, _)
SuccessesIn(day, K) ==
    IF K = {} THEN 0
    ELSE LET k == CHOOSE j \in K : TRUE IN day[k].ok + SuccessesIn(day, K \ {k})

\* <<weighted probability, total samples>> a run s..e of day should be given
RunScore(day, s, e) ==
    <<(<<SuccessesIn(day, CellsBetween(s, e)), SamplesIn(day, CellsBetween(s, e))>>),
      SamplesIn(day, CellsBetween(s, e))>>

\* score x is ranked strictly above score y
Outranks(x, y) ==
    \/ x[1][1] * y[1][2] > y[1][1] * x[1][2]
    \/ (x[1][1] * y[1][2] = y[1][1] * x[1][2] /\ x[2] > y[2])

Ends(seq) == {<<seq[i][1], seq[i][2]>> : i \in DOMAIN seq}

----------------------------------------------------------------------------
(* Properties of merge_and_score and top_k_runs (under SpecFn) *)

\* C1: the intervals merge_and_score returns are exactly the maximal runs of
\* qualifying bins (p >= THRESHOLD and n >= MIN_SAMPLES_PER_BIN), one bin width
\* apart, of at least MIN_RUN_BINS bins: none shorter, none holding a
\* non-qualifying or unobserved bin, no two adjacent, each reported once as
\* (start of first bin, start of last bin).
C1_SafeIntervalsAreMaximalRuns ==
    pc \in {"merged", "ranked"} =>
        LET S == QualifyingKeys(day_bins)
        IN  /\ Ends(merged) = LongRuns(S)
            /\ Len(merged) = Cardinality(LongRuns(S))
            /\ \A i \in DOMAIN merged :
                   /\ RunLength(merged[i][1], merged[i][2]) >= MIN_RUN_BINS
                   /\ CellsBetween(merged[i][1], merged[i][2]) \subseteq S
            /\ \A i, j \in DOMAIN merged :
                   to_min(merged[j][1]) - to_min(merged[i][2]) # BIN_MINUTES

\* a safe interval next to a lone qualifying bin that was dropped and an
\* observed bin that does not qualify
C1_Witness ==
    /\ pc = "merged"
    /\ Len(merged) = 1
    /\ \E k \in QualifyingKeys(day_bins) : k \notin CellsBetween(merged[1][1], merged[1][2])
    /\ ObservedKeys(day_bins) # QualifyingKeys(day_bins)

\* the stored score of an interval is the score of its bins
ScoredRight(day, iv) ==
    LET K == CellsBetween(iv[1], iv[2])
    IN  /\ iv[4] = SamplesIn(day, K)
        /\ iv[3][2] > 0
        /\ iv[3][1] * SamplesIn(day, K) = SuccessesIn(day, K) * iv[3][2]
        /\ \E k \in K : day[k].ok * iv[3][2] <= iv[3][1] * day[k].n
        /\ \E k \in K : iv[3][1] * day[k].n <= day[k].ok * iv[3][2]

\* C2: for every interval of merge_and_score and of top_k_runs,
\* weightedProbability = sum(ok_i) / sum(n_i), totalSamples = sum(n_i), and
\* min p_i <= weightedProbability <= max p_i over the member bins.
C2_WeightedProbability ==
    pc = "ranked" =>
        /\ \A i \in DOMAIN merged : ScoredRight(day_bins, merged[i])
        /\ \A i \in DOMAIN alt : ScoredRight(day_bins, alt[i])

\* a safe interval whose bins differ in sample count and in probability
C2_Witness ==
    /\ pc = "ranked"
    /\ \E i \in DOMAIN merged :
          \E k, j \in CellsBetween(merged[i][1], merged[i][2]) :
              /\ day_bins[k].n # day_bins[j].n
              /\ day_bins[k].ok * day_bins[j].n < day_bins[j].ok * day_bins[k].n
    /\ \E i \in DOMAIN alt :
          \E k, j \in CellsBetween(alt[i][1], alt[i][2]) :
              /\ day_bins[k].n # day_bins[j].n
              /\ day_bins[k].ok * day_bins[j].n < day_bins[j].ok * day_bins[k].n

\* C4: top_k_runs returns at most K intervals, in descending order of
\* (weightedProbability, totalSamples), and they are the K highest ranked of
\* all maximal runs of observed bins with at least MIN_RUN_BINS bins: no
\* threshold, no sample floor, no run left out that outranks a returned one.
C4_TopKOfAllRuns ==
    pc = "ranked" =>
        LET all == LongRuns(ObservedKeys(day_bins))
            score(se) == RunScore(day_bins, se[1], se[2])
        IN  /\ Len(alt) <= TOP_K
            /\ Len(alt) = (IF Cardinality(all) < TOP_K THEN Cardinality(all) ELSE TOP_K)
            /\ Ends(alt) \subseteq all
            /\ Cardinality(Ends(alt)) = Len(alt)
            /\ \A i, j \in DOMAIN alt :
                   i < j => ~Outranks(<<alt[j][3], alt[j][4]>>, <<alt[i][3], alt[i][4]>>)
            /\ \A se \in all \ Ends(alt) :
                   \A r \in Ends(alt) : ~Outranks(score(se), score(r))

\* the fallback case with more runs than proposals, one of them ranked lower
C4_Witness ==
    /\ pc = "ranked"
    /\ merged = <<>>
    /\ Len(alt) = TOP_K
    /\ \E se \in LongRuns(ObservedKeys(day_bins)) \ Ends(alt) :
          Outranks(<<alt[1][3], alt[1][4]>>, RunScore(day_bins, se[1], se[2]))
    /\ QualifyingKeys(day_bins) # {}

----------------------------------------------------------------------------
(* Properties of the run over a CSV file (under Spec) *)

Reported == rec_outcome = "report"

SamplesOn(wd) == {i \in DOMAIN records : records[i][1] = wd}

\* the line of a day without any measure
NoDataLine == [kind |-> "none", parts |-> <<>>, measures |-> 0]

\* C3: each weekday Monday-Saturday gets exactly one outcome: "safe" iff there
\* is a safe interval, "best observed" only without one, else "no exploitable
\* slot"; when no bin of the day qualifies, the best-observed list is non-empty
\* iff the day has a run of at least MIN_RUN_BINS observed bins; every bin of
\* an interval labelled safe qualifies.
C3_OneOutcomePerDay ==
    Reported =>
        \A wd \in ReportDays :
            LET day == bins_data[wd]
                safe == LongRuns(QualifyingKeys(day))
                seen == LongRuns(ObservedKeys(day))
                line == report[wd]
            IN  /\ line.kind \in {"safe", "best", "none"}
                /\ line.kind = "safe" <=> safe # {}
                /\ line.kind = "best" <=> (safe = {} /\ seen # {})
                /\ line.kind = "none" <=> line.parts = <<>>
                /\ line.kind = "safe" =>
                       /\ Ends(line.parts) = safe
                       /\ \A i \in DOMAIN line.parts :
                              CellsBetween(line.parts[i][1], line.parts[i][2])
                                  \subseteq QualifyingKeys(day)
                /\ line.kind = "best" => Ends(line.parts) \subseteq seen
                /\ QualifyingKeys(day) = {} =>
                       ((line.kind = "best" /\ line.parts # <<>>) <=> seen # {})

\* Monday has a run of observed bins none of which qualifies, Saturday a lone bin
C3_Witness ==
    /\ Reported
    /\ report[0].kind = "best"
    /\ QualifyingKeys(bins_data[0]) = {}
    /\ report[5].kind = "none"
    /\ ObservedKeys(bins_data[5]) # {}

\* C5: a weekday with no sample in the window gets the no-data line, and a
\* weekday with at least one sample in the window never gets that line.
C5_NoDataDayIsDistinct ==
    Reported =>
        \A wd \in ReportDays :
            /\ SamplesOn(wd) = {} => report[wd] = NoDataLine
            /\ SamplesOn(wd) # {} => report[wd] # NoDataLine

\* Monday has samples (one of them without a free connector) but no run,
\* Tuesday has no sample
C5_Witness ==
    /\ Reported
    /\ report[0].kind = "none"
    /\ \E i \in SamplesOn(0) : records[i][4] = 0
    /\ SamplesOn(1) = {}

\* Monday 09:00 1/2, 09:10 2/2, 09:20 0/2 with bin width 10, threshold 90 %
Scenario ==
    /\ cfg = ScenarioConfig
    /\ Reported
    /\ Len(records) = 3
    /\ {records[i] : i \in DOMAIN records} = {<<0, 9, 0, 1>>, <<0, 9, 10, 2>>, <<0, 9, 20, 0>>}

\* C6 as stated: the 1/2 sample puts the 09:00 bin below the threshold, Monday
\* has no safe interval, and the fallback returns the 09:00-09:10 pairing.
C6_AsStated ==
    Scenario =>
        /\ bins_data[0][<<9, 0>>].ok * 100 < THRESHOLD * bins_data[0][<<9, 0>>].n
        /\ report[0].kind = "best"
        /\ <<(<<9, 0>>), (<<9, 10>>)>> \in Ends(report[0].parts)

\* C6 amended: a sample with available >= 1 is a success whatever its total,
\* so the 09:00 bin has probability 1, and Monday gets the safe interval
\* 09:00-09:10 with weighted probability 1 and 2 samples; no fallback.
C6_ScenarioIsSafe ==
    Scenario =>
        /\ bins_data[0][<<9, 0>>] = [n |-> 1, ok |-> 1]
        /\ report[0].kind = "safe"
        /\ Len(report[0].parts) = 1
        /\ report[0].parts[1][1] = <<9, 0>>
        /\ report[0].parts[1][2] = <<9, 10>>
        /\ RatEq(report[0].parts[1][3], <<1, 1>>)
        /\ report[0].parts[1][4] = 2

C6_Witness == Scenario

Perms(n) == {f \in [1 .. n -> 1 .. n] : \A i, j \in 1 .. n : f[i] = f[j] => i = j}

\* the grid after aggregating seq[1..i] in that order
RECURSIVE GridAfter(_, _)
GridAfter(seq, i) ==
    IF i = 0 THEN [wd \in Weekdays |-> EmptyDict]
    ELSE AggregateRecord(GridAfter(seq, i - 1), seq[i])

Aggregated == pc \in {"report", "done"} /\ rec_outcome # "no_data"

RecordsAt(wd, key) ==
    {i \in DOMAIN records : records[i][1] = wd /\ <<records[i][2], records[i][3]>> = key}

C7_State ==
    /\ \A wd \in Weekdays : \A k \in DOMAIN bins_data[wd] :
           bins_data[wd][k].ok <= bins_data[wd][k].n
    /\ DOMAIN success = DOMAIN total
    /\ \A c \in DOMAIN total : success[c] <= total[c]
    /\ Aggregated =>
           /\ \A f \in Perms(Len(records)) :
                  GridAfter([i \in 1 .. Len(records) |-> records[f[i]]], Len(records))
                      = bins_data
           /\ \A i \in DOMAIN records :
                  <<records[i][2], records[i][3]>> \in DOMAIN bins_data[records[i][1]]
           /\ \A wd \in Weekdays : \A k \in DOMAIN bins_data[wd] :
                  /\ bins_data[wd][k].n = Cardinality(RecordsAt(wd, k))
                  /\ bins_data[wd][k].ok =
                         Cardinality({i \in RecordsAt(wd, k) : records[i][4] >= 1})

C7_Step ==
    /\ \A wd \in Weekdays : \A k \in DOMAIN bins_data[wd] :
           /\ k \in DOMAIN bins_data'[wd]
           /\ bins_data'[wd][k].n >= bins_data[wd][k].n
           /\ bins_data'[wd][k].ok >= bins_data[wd][k].ok
    /\ \A c \in DOMAIN total :
           /\ c \in DOMAIN total'
           /\ total'[c] >= total[c]
           /\ success'[c] >= success[c]

\* C7: the final grid is the same for every order of the samples; each
\* accepted sample adds 1 to n, and 1 to ok exactly when available >= 1;
\* counts never decrease and ok <= n in every intermediate state.
C7_OrderIndependent == []C7_State /\ [][C7_Step]_vars

\* three samples aggregated, two of them in one bin, one free and one not
C7_Witness ==
    /\ pc = "done"
    /\ Len(records) = 3
    /\ \E i, j \in DOMAIN records :
          /\ records[i][1] = records[j][1]
          /\ records[i][2] = records[j][2]
          /\ records[i][3] = records[j][3]
          /\ i < j
          /\ records[i][4] >= 1
          /\ records[j][4] = 0

\* C8: without any usable Monday-Saturday sample the recommender ends in "no
\* data to analyze" and the heatmap in "no usable data"; with one, neither.
C8_EmptyInputOutcome ==
    pc = "done" =>
        LET usable == {i \in DOMAIN records : records[i][1] \in ReportDays}
        IN  /\ usable = {} => (rec_outcome = "no_data" /\ hm_outcome = "no_usable_data")
            /\ usable # {} => (rec_outcome = "report" /\ hm_outcome = "heatmap")

SlotIndex(k) == (to_min(k) - to_min(START_LOCAL)) \div BIN_MINUTES

\* C10: for every bin width, the recommender's key and the heatmap's slot are
\* the same bin floor(minutesSinceWindowStart / binWidth) in 0..slotsPerDay-1,
\* the two grids hold equal counts cell for cell, and two bins are contiguous
\* for the recommender exactly when their slot indices differ by 1.
C10_SameBinsInBothTools ==
    Aggregated =>
        /\ \A wd \in Weekdays : \A k \in DOMAIN bins_data[wd] :
               /\ (to_min(k) - to_min(START_LOCAL)) % BIN_MINUTES = 0
               /\ SlotIndex(k) \in 0 .. SLOTS_PER_DAY - 1
               /\ At(total, wd, SlotIndex(k)) = bins_data[wd][k].n
               /\ At(success, wd, SlotIndex(k)) = bins_data[wd][k].ok
        /\ \A c \in DOMAIN total :
               KeyAt(to_min(START_LOCAL) + c[2] * BIN_MINUTES) \in DOMAIN bins_data[c[1]]
        /\ \A wd \in Weekdays : \A k1, k2 \in DOMAIN bins_data[wd] :
               Contiguous(k1, k2) <=> SlotIndex(k2) - SlotIndex(k1) = 1

====
